---- MODULE Spec2Model ----
(***************************************************************************)
(* LazyCopy (src/app.py): a recursive file copier.  The model follows the  *)
(* control flow of main, Worker.run, Worker.copy_file, Worker.link_file,   *)
(* Worker.init_bar, Worker.close_bar and is_binary over a small POSIX      *)
(* filesystem: a source directory A holding a regular file a, a            *)
(* subdirectory B (with a file b and an empty directory E) and a symbolic  *)
(* link c, and a destination whose name and prior content vary.            *)
(***************************************************************************)
EXTENDS Integers, Sequences, FiniteSets, TLC

(* ------------------------------ bounds --------------------------------- *)
MaxLen == 2        \* longest content of the source file a, in bytes
MaxChunk == 2      \* largest --chunk-size tried
MaxRuns == 2       \* how many times the program is invoked in a row

(* --------------------------- program constants ------------------------- *)
ProbeChars == 16   \* fp.read(16) in is_binary

(* ------------------------------- bytes --------------------------------- *)
\* "x" is a plain ASCII byte, "CR" is 0x0D, "LF" is 0x0A and "BAD" is a byte
\* (0xFF) that is never valid in UTF-8.
Byte == {"x", "CR", "LF", "BAD"}
Contents == UNION {[1..n -> Byte] : n \in 0..MaxLen}

Min(a, b) == IF a < b THEN a ELSE b
Take(s, n) == SubSeq(s, 1, Min(n, Len(s)))
Drop(s, n) == SubSeq(s, Min(n, Len(s)) + 1, Len(s))

(* ------------------------------ the nodes ------------------------------ *)
None == [k |-> "none", c |-> <<>>, t |-> ""]
Dir == [k |-> "dir", c |-> <<>>, t |-> ""]
File(content) == [k |-> "file", c |-> content, t |-> ""]
Link(target) == [k |-> "link", c |-> <<>>, t |-> target]

\* Paths are sequences of names below the root of their tree.
SPaths == {<<>>, <<"a">>, <<"B">>, <<"c">>, <<"B", "b">>, <<"B", "E">>}
DPaths == SPaths \cup {<<"gone">>}
Parent(p) == SubSeq(p, 1, Len(p) - 1)
Perms == {<<"a", "B", "c">>, <<"a", "c", "B">>, <<"B", "a", "c">>,
          <<"B", "c", "a">>, <<"c", "a", "B">>, <<"c", "B", "a">>}

\* Destination names given on the command line, as character sequences.
DestNames == {<<"o">>, <<"o", ".", "v">>, <<".", "h">>}

VARIABLES
    source,      \* args.source: a path of the source tree (<<>> is A itself)
    destination, \* args.destination: the name of the destination
    chunk_size,  \* Worker.chunk_size
    acontent,    \* the bytes of the source file A/a
    tkind,       \* what the source link's target "T" is: "dir", "file", "none"
    order,       \* the order in which os.scandir lists A
    failing,     \* the call the environment makes fail, or "none"
    fs,          \* the destination filesystem: DPaths -> node
    pc,          \* the position of the program
    stack,       \* the frames of Worker.run that are iterating a directory
    op,          \* the copy_file / link_file call in progress or last made
    inp,         \* the line input() returned in the last step, or NoInput
    bar,         \* Worker._bar
    binary,      \* check_is_binary
    rest,        \* what src_file has not yet returned to read()
    writes,      \* the sizes of the target_file.write calls of this copy
    clean,       \* no Skip, Exit or interrupt has happened so far
    cause,       \* the call whose exception ended the process, or "none"
    exitcode,    \* the process's exit code, -1 while it runs
    runs,        \* the number of the current invocation of the program
    snap,        \* fs when the current invocation started
    made,        \* the directories os.makedirs created in this invocation
    intoDir      \* Worker.run was given a directory and an existing directory

vars == <<source, destination, chunk_size, acontent, tkind, order, failing, fs, pc,
          stack, op, inp, bar, binary, rest, writes, clean, cause, exitcode,
          runs, snap, made, intoDir>>

inputsV == <<source, destination, chunk_size, acontent, tkind, order, failing>>

NoInput == "-"
NoBar == [on |-> FALSE, total |-> 0, n |-> 0]
NoOp == [kind |-> "none", src |-> <<>>, dst |-> <<>>, existed |-> FALSE,
         found |-> FALSE, asked |-> FALSE, retried |-> FALSE, parentOK |-> TRUE, child |-> FALSE,
         out |-> "none"]

(* --------------------------- the source tree --------------------------- *)
SrcNode(p) ==
    CASE p = <<"a">> -> File(acontent)
      [] p = <<"B", "b">> -> File(<<"x">>)
      [] p = <<"c">> -> Link("T")
      [] p \in {<<>>, <<"B">>, <<"B", "E">>} -> Dir
      [] OTHER -> None

\* os.scandir(src_path): the names of the children, in listing order.
Listing(p) ==
    CASE p = <<>> -> order
      [] p = <<"B">> -> <<"b", "E">>
      [] OTHER -> <<>>

\* The path string of a source entry, as run() passes it on.
SrcStr(p) ==
    CASE p = <<>> -> "A"
      [] p = <<"a">> -> "A/a"
      [] p = <<"B">> -> "A/B"
      [] p = <<"c">> -> "A/c"
      [] p = <<"B", "b">> -> "A/B/b"
      [] OTHER -> "A/B/E"

\* What a source path is once symbolic links are followed.
SrcKind(p) == IF SrcNode(p).k = "link" THEN tkind ELSE SrcNode(p).k

(* --------------------------- pure functions ---------------------------- *)
Range(s) == {s[i] : i \in 1..Len(s)}

\* Decoding as UTF-8 fails exactly when an invalid byte is met.
DecodeOK(bytes) == "BAD" \notin Range(bytes)

\* is_binary: the probe decodes the start of the file as UTF-8 text;
\* UnicodeDecodeError means binary.
is_binary(bytes) == ~DecodeOK(Take(bytes, ProbeChars))

\* Text-mode reading (newline=None): "\r\n" and a lone "\r" both become "\n".
RECURSIVE Translate(_)
Translate(s) ==
    IF s = <<>> THEN <<>>
    ELSE IF Head(s) = "CR"
         THEN <<"LF">> \o Translate(IF Len(s) > 1 /\ s[2] = "LF"
                                    THEN Tail(Tail(s)) ELSE Tail(s))
         ELSE <<Head(s)>> \o Translate(Tail(s))

\* What open(src, "rb" if check_is_binary else "r") yields to read(): bytes
\* in binary mode, decoded and newline-translated characters in text mode.
\* Text-mode writing on POSIX encodes each character back to its byte.
Stream(bytes, bin) == IF bin THEN bytes ELSE Translate(bytes)

\* os.path.splitext(os.path.basename(name))[1] is non-empty: the name has a
\* last dot with a character other than a dot somewhere before it.
HasExt(name) ==
    \E d \in 1..Len(name) :
        /\ name[d] = "."
        /\ \A j \in (d + 1)..Len(name) : name[j] # "."
        /\ \E i \in 1..(d - 1) : name[i] # "."

\* str.lower() on the answers the model types.
Inputs == {"o", "O", "s", "S", "e", "E", "x", ""}
lower_identity(s) == s
lower(s) ==
    CASE s = "O" -> "o"
      [] s = "S" -> "s"
      [] s = "E" -> "e"
      [] OTHER -> s

\* tqdm.__bool__ (total is not None): total > 0; None is falsy.
Truthy(b) == b.on /\ b.total > 0

\* Worker.close_bar
close_bar(b) == IF Truthy(b) THEN NoBar ELSE b

(* ----------------------- the destination filesystem -------------------- *)
\* What a link with target string t leads to.  "gone" is a relative target
\* inside the destination directory; the source link's own path leads to
\* whatever the source link leads to; anything else dangles.
LinkKind(f, t) ==
    CASE t = "gone" -> f[<<"gone">>].k
      [] t \in {"T", "A/c"} -> tkind
      [] OTHER -> "none"

\* The kind of a destination path as os.stat sees it (links followed).
Kind(f, p) == IF f[p].k = "link" THEN LinkKind(f, f[p].t) ELSE f[p].k

exists(f, p) == Kind(f, p) # "none"       \* os.path.exists
lexists(f, p) == f[p].k # "none"          \* the path itself is taken
isdir(f, p) == Kind(f, p) = "dir"         \* os.path.isdir
\* The directory a path is created in; the destination itself lies in the
\* working directory, which exists.
ParentIsDir(f, p) == p = <<>> \/ isdir(f, Parent(p))

\* The node open(dest, "w") writes: the path, or what a link there leads to.
WriteTarget(f, p) == IF f[p].k = "link" /\ f[p].t = "gone" THEN <<"gone">> ELSE p
CanOpenWrite(f, p) ==
    /\ ParentIsDir(f, p)
    /\ Kind(f, p) # "dir"
    /\ f[p].k = "link" => f[p].t = "gone"
DestContent(f, p) == f[WriteTarget(f, p)].c

\* The test at the head of copy_file.
PromptAlways(f, p) == TRUE
NeedsPrompt(f, p) == exists(f, p)

\* The order of the tests on an entry: is_symlink, then is_file, then is_dir
\* (the last two follow links).
ClassifyNoLink(p) ==
    IF SrcKind(p) = "file" THEN "file"
    ELSE IF SrcKind(p) = "dir" THEN "dir" ELSE "other"
Classify(p) ==
    IF SrcNode(p).k = "link" THEN "link"
    ELSE IF SrcKind(p) = "file" THEN "file"
    ELSE IF SrcKind(p) = "dir" THEN "dir" ELSE "other"

\* The environment's failures: the named call fails whenever it is made on
\* the entry it concerns (A/a for the file calls, c for symlink, B for
\* makedirs, the destination itself for mkdir).
Calls == {"mkdir", "makedirs", "symlink", "getsize", "probe", "opensrc",
          "opendest", "read", "write"}
Fails(call, p) ==
    /\ failing = call
    /\ p = CASE call \in {"getsize", "probe", "opensrc", "opendest", "read", "write"}
                  -> <<"a">>
             [] call = "symlink" -> <<"c">>
             [] call = "makedirs" -> <<"B">>
             [] OTHER -> <<>>

\* Where control is after copy_file or link_file returns to run().
Ret == IF stack = <<>> THEN "finished" ELSE "scan"
RetCode == IF stack = <<>> THEN 0 ELSE exitcode

(* ------------------------------- Init ---------------------------------- *)
Blank == [p \in DPaths |-> None]
OldBytes == <<"LF">>

\* The destination before the first invocation: absent, a regular file, or a
\* directory that may already hold a, B and c.
DestDirs(as, bs, cs) ==
    {[Blank EXCEPT ![<<>>] = Dir, ![<<"a">>] = na, ![<<"B">>] = nb, ![<<"c">>] = nc] :
        na \in as, nb \in bs, nc \in cs}
OldA == {None, File(OldBytes), Link("gone")}
OldB == {None, Dir, File(OldBytes)}
OldC == {None, Link("old")}

\* The program's inputs.  Inputs that the invocation never reads are held at
\* one value: a single file never lists A or looks at B and c, a single link
\* never reads A/a, and the chunk size only matters for files longer than a
\* byte.
InitFile ==
    /\ source = <<"a">>
    /\ destination \in DestNames
    /\ chunk_size \in 1..MaxChunk
    /\ acontent \in Contents
    /\ tkind = "none"
    /\ order = <<"a", "B", "c">>
    /\ failing \in {"none", "mkdir", "getsize", "probe", "opensrc", "opendest",
                    "read", "write"}
    /\ fs \in {Blank, [Blank EXCEPT ![<<>>] = File(OldBytes)]}
              \cup DestDirs(OldA, {None}, {None})

InitLink ==
    /\ source = <<"c">>
    /\ destination \in DestNames
    /\ chunk_size = 1
    /\ acontent = <<>>
    /\ tkind \in {"dir", "file", "none"}
    /\ order = <<"a", "B", "c">>
    /\ failing \in {"none", "mkdir", "symlink"}
    /\ fs \in {Blank, [Blank EXCEPT ![<<>>] = File(OldBytes)]}
              \cup DestDirs({None}, {None}, OldC)

InitTree ==
    /\ source = <<>>
    /\ destination \in DestNames
    /\ chunk_size = 1
    /\ acontent \in {c \in Contents : Len(c) <= 1}
    /\ tkind \in {"dir", "none"}
    /\ order \in Perms
    /\ failing \in Calls \cup {"none"}
    /\ fs \in {Blank, [Blank EXCEPT ![<<>>] = File(OldBytes)]}
              \cup DestDirs(OldA, OldB, OldC)

Init ==
    /\ InitFile \/ InitLink \/ InitTree
    /\ pc = "main"
    /\ stack = <<>>
    /\ op = NoOp
    /\ inp = NoInput
    /\ bar = NoBar
    /\ binary = FALSE
    /\ rest = <<>>
    /\ writes = <<>>
    /\ clean = TRUE
    /\ cause = "none"
    /\ exitcode = -1
    /\ runs = 1
    /\ snap = fs
    /\ made = {}
    /\ intoDir = FALSE

(* ------------------------------- main ---------------------------------- *)
\* main, lines 208-211: a destination without an extension that is no
\* directory is created with os.mkdir, whose failure is not caught.
Main ==
    /\ pc = "main"
    /\ LET needs == ~HasExt(destination) /\ ~isdir(fs, <<>>)
            ok == ~Fails("mkdir", <<>>) /\ ~lexists(fs, <<>>)
        IN  /\ IF ~needs
               THEN pc' = "dispatch" /\ UNCHANGED <<fs, cause, exitcode>>
               ELSE IF ok
                    THEN /\ fs' = [fs EXCEPT ![<<>>] = Dir]
                         /\ pc' = "dispatch"
                         /\ UNCHANGED <<cause, exitcode>>
                    ELSE /\ pc' = "crashed"
                         /\ cause' = "mkdir"
                         /\ exitcode' = 1
                         /\ fs' = fs
    /\ inp' = NoInput
    /\ UNCHANGED <<inputsV, stack, op, bar, binary, rest, writes, clean, runs,
                   snap, made, intoDir>>

(* ------------------------- link_file, copy_file ------------------------ *)
\* Worker.link_file(src, dst): os.symlink(src, dst); OSError is caught.
LinkOK(src, dst) ==
    ~Fails("symlink", src) /\ ~lexists(fs, dst) /\ ParentIsDir(fs, dst)
LinkFs(src, dst) ==
    IF LinkOK(src, dst) THEN [fs EXCEPT ![dst] = Link(SrcStr(src))] ELSE fs
LinkOp(src, dst, child) ==
    [kind |-> "link", src |-> src, dst |-> dst, existed |-> lexists(fs, dst),
     found |-> exists(fs, dst), asked |-> FALSE, retried |-> FALSE, parentOK |-> ParentIsDir(fs, dst),
     child |-> child,
     out |-> IF LinkOK(src, dst) THEN "linked" ELSE "link_failed"]

\* The entry of Worker.copy_file(src, dst), lines 97-101: the test, and the
\* question printed when it holds (asked).
CopyOp(src, dst, child) ==
    [kind |-> "copy", src |-> src, dst |-> dst, existed |-> lexists(fs, dst),
     found |-> exists(fs, dst), asked |-> NeedsPrompt(fs, dst),
     retried |-> FALSE, parentOK |-> ParentIsDir(fs, dst), child |-> child,
     out |-> "pending"]
CopyPc(dst) == IF NeedsPrompt(fs, dst) THEN "prompt" ELSE "initbar"

(* -------------------------- Worker.run, top call ----------------------- *)
\* dest_path = os.path.join(dest_path, os.path.basename(src_path)) when the
\* destination is a directory.
TopDest == IF isdir(fs, <<>>) THEN <<source[Len(source)]>> ELSE <<>>

RunLink ==
    /\ pc = "dispatch"
    /\ Classify(source) = "link"
    /\ fs' = LinkFs(source, TopDest)
    /\ op' = LinkOp(source, TopDest, FALSE)
    /\ pc' = "finished"
    /\ exitcode' = 0
    /\ inp' = NoInput
    /\ UNCHANGED <<inputsV, stack, bar, binary, rest, writes, clean, cause,
                   runs, snap, made, intoDir>>

RunFile ==
    /\ pc = "dispatch"
    /\ Classify(source) = "file"
    /\ op' = CopyOp(source, TopDest, FALSE)
    /\ pc' = CopyPc(TopDest)
    /\ writes' = <<>>
    /\ inp' = NoInput
    /\ UNCHANGED <<inputsV, fs, stack, bar, binary, rest, clean, cause,
                   exitcode, runs, snap, made, intoDir>>

\* Neither a link nor a regular file: os.scandir(src_path), which raises
\* when src_path is no directory.
RunDir ==
    /\ pc = "dispatch"
    /\ Classify(source) \notin {"link", "file"}
    /\ IF SrcKind(source) = "dir"
       THEN /\ stack' = <<[src |-> source, dst |-> <<>>, todo |-> Listing(source)]>>
            /\ pc' = "scan"
            /\ intoDir' = isdir(fs, <<>>)
            /\ UNCHANGED <<cause, exitcode>>
       ELSE /\ pc' = "crashed"
            /\ cause' = "scandir"
            /\ exitcode' = 1
            /\ UNCHANGED <<stack, intoDir>>
    /\ inp' = NoInput
    /\ UNCHANGED <<inputsV, fs, op, bar, binary, rest, writes, clean,
                   runs, snap, made>>

(* ----------------------- Worker.run, the walk --------------------------- *)
Top == stack[Len(stack)]
Item == Head(Top.todo)
ItemSrc == Append(Top.src, Item)
ItemDst == Append(Top.dst, Item)          \* os.path.join(dest_path, item.name)
Advance == [stack EXCEPT ![Len(stack)].todo = Tail(Top.todo)]

\* item.is_symlink(): self.link_file(src, target); continue
ScanLink ==
    /\ pc = "scan"
    /\ Top.todo # <<>>
    /\ Classify(ItemSrc) = "link"
    /\ fs' = LinkFs(ItemSrc, ItemDst)
    /\ op' = LinkOp(ItemSrc, ItemDst, TRUE)
    /\ stack' = Advance
    /\ inp' = NoInput
    /\ UNCHANGED <<inputsV, pc, bar, binary, rest, writes, clean, cause,
                   exitcode, runs, snap, made, intoDir>>

\* item.is_file(): self.copy_file(src, target); continue
ScanFile ==
    /\ pc = "scan"
    /\ Top.todo # <<>>
    /\ Classify(ItemSrc) = "file"
    /\ op' = CopyOp(ItemSrc, ItemDst, TRUE)
    /\ pc' = CopyPc(ItemDst)
    /\ writes' = <<>>
    /\ stack' = Advance
    /\ inp' = NoInput
    /\ UNCHANGED <<inputsV, fs, bar, binary, rest, clean, cause,
                   exitcode, runs, snap, made, intoDir>>

\* os.makedirs(target, exist_ok=True): the directories it creates, or {} when
\* target is a directory already; Failed when it raises.
Failed == {<<"!">>}
MakeDirs(f, p) ==
    IF p # <<>> /\ ~exists(f, Parent(p))
    THEN IF lexists(f, Parent(p)) THEN Failed ELSE {Parent(p), p}
    ELSE IF ~ParentIsDir(f, p) THEN Failed
    ELSE IF ~lexists(f, p) THEN {p}
    ELSE IF isdir(f, p) THEN {} ELSE Failed

\* item.is_dir(): os.makedirs(target, exist_ok=True); self.run(src, target)
ScanDir ==
    /\ pc = "scan"
    /\ Top.todo # <<>>
    /\ Classify(ItemSrc) = "dir"
    /\ LET new == MakeDirs(fs, ItemDst)
        IN  /\ IF Fails("makedirs", ItemSrc) \/ new = Failed
               THEN /\ pc' = "crashed"
                    /\ cause' = "makedirs"
                    /\ exitcode' = 1
                    /\ UNCHANGED <<fs, made, stack>>
               ELSE /\ fs' = [p \in DPaths |-> IF p \in new THEN Dir ELSE fs[p]]
                    /\ made' = made \cup new
                    /\ stack' = Append(Advance, [src |-> ItemSrc, dst |-> ItemDst,
                                                 todo |-> Listing(ItemSrc)])
                    /\ UNCHANGED <<pc, cause, exitcode>>
    /\ inp' = NoInput
    /\ UNCHANGED <<inputsV, op, bar, binary, rest, writes, clean, runs, snap,
                   intoDir>>

\* The for loop of run() is exhausted: run() returns to its caller.
ScanReturn ==
    /\ pc = "scan"
    /\ Top.todo = <<>>
    /\ stack' = SubSeq(stack, 1, Len(stack) - 1)
    /\ pc' = IF Len(stack) = 1 THEN "finished" ELSE "scan"
    /\ exitcode' = IF Len(stack) = 1 THEN 0 ELSE exitcode
    /\ inp' = NoInput
    /\ UNCHANGED <<inputsV, fs, op, bar, binary, rest, writes, clean,
                   cause, runs, snap, made, intoDir>>

(* --------------------------- copy_file, steps -------------------------- *)
\* Lines 98-110: print the question, read an answer, act on it.
Prompt ==
    /\ pc = "prompt"
    /\ \E i \in Inputs :
        LET resp == lower(i)
        IN  /\ inp' = i
            /\ IF resp = "s"
               THEN /\ pc' = Ret
                    /\ exitcode' = RetCode
                    /\ op' = [op EXCEPT !.out = "skipped"]
                    /\ clean' = FALSE
               ELSE IF resp = "e"
               THEN /\ pc' = "exited"
                    /\ exitcode' = 1
                    /\ op' = [op EXCEPT !.out = "aborted"]
                    /\ clean' = FALSE
               ELSE IF resp = "o"
               THEN /\ pc' = "initbar"
                    /\ UNCHANGED <<op, exitcode, clean>>
               ELSE /\ pc' = "prompt"
                    /\ op' = [op EXCEPT !.retried = TRUE]
                    /\ UNCHANGED <<exitcode, clean>>
    /\ UNCHANGED <<inputsV, fs, stack, bar, binary, rest, writes, cause, runs,
                   snap, made, intoDir>>

\* Lines 112-113, init_bar: os.path.getsize(src) is outside the try block.
InitBar ==
    /\ pc = "initbar"
    /\ IF Fails("getsize", op.src)
       THEN /\ pc' = "crashed"
            /\ cause' = "getsize"
            /\ exitcode' = 1
            /\ bar' = bar
       ELSE /\ bar' = [on |-> TRUE, total |-> Len(SrcNode(op.src).c), n |-> 0]
            /\ pc' = "probe"
            /\ UNCHANGED <<cause, exitcode>>
    /\ inp' = NoInput
    /\ UNCHANGED <<inputsV, fs, stack, op, binary, rest, writes, clean, runs,
                   snap, made, intoDir>>

\* Line 114, is_binary(src): only UnicodeDecodeError is caught there, and the
\* call is outside the try block of copy_file.
Probe ==
    /\ pc = "probe"
    /\ IF Fails("probe", op.src)
       THEN /\ pc' = "crashed"
            /\ cause' = "probe"
            /\ exitcode' = 1
            /\ binary' = binary
       ELSE /\ binary' = is_binary(SrcNode(op.src).c)
            /\ pc' = "open"
            /\ UNCHANGED <<cause, exitcode>>
    /\ inp' = NoInput
    /\ UNCHANGED <<inputsV, fs, stack, op, bar, rest, writes, clean, runs, snap,
                   made, intoDir>>

\* Lines 117-121: open the source, then the destination ("w" creates or
\* truncates it).  A failure is caught at line 134.
Open ==
    /\ pc = "open"
    /\ IF \/ Fails("opensrc", op.src)
          \/ Fails("opendest", op.src)
          \/ ~CanOpenWrite(fs, op.dst)
       THEN /\ bar' = close_bar(bar)
            /\ op' = [op EXCEPT !.out = "copy_failed"]
            /\ pc' = Ret
            /\ exitcode' = RetCode
            /\ UNCHANGED <<fs, rest>>
       ELSE /\ fs' = [fs EXCEPT ![WriteTarget(fs, op.dst)] = File(<<>>)]
            /\ rest' = Stream(SrcNode(op.src).c, binary)
            /\ pc' = "loop"
            /\ UNCHANGED <<bar, op, exitcode>>
    /\ inp' = NoInput
    /\ UNCHANGED <<inputsV, stack, binary, writes, clean, cause, runs, snap,
                   made, intoDir>>

\* Lines 122-136: one turn of the while loop, or its end.  In text mode the
\* read decodes the file and raises on an invalid byte; every exception of
\* the block is caught at line 134.
Loop ==
    /\ pc = "loop"
    /\ LET buffer == Take(rest, chunk_size)
            w == WriteTarget(fs, op.dst)
        IN  /\ IF \/ Fails("read", op.src)
                  \/ ~binary /\ ~DecodeOK(rest)
                  \/ buffer # <<>> /\ Fails("write", op.src)
               THEN /\ bar' = close_bar(bar)
                    /\ op' = [op EXCEPT !.out = "copy_failed"]
                    /\ pc' = Ret
                    /\ exitcode' = RetCode
                    /\ UNCHANGED <<fs, rest, writes>>
               ELSE IF buffer = <<>>
               THEN /\ bar' = close_bar(bar)
                    /\ op' = [op EXCEPT !.out = "copied"]
                    /\ pc' = Ret
                    /\ exitcode' = RetCode
                    /\ UNCHANGED <<fs, rest, writes>>
               ELSE /\ fs' = [fs EXCEPT ![w] = File(fs[w].c \o buffer)]
                    /\ rest' = Drop(rest, chunk_size)
                    /\ writes' = Append(writes, Len(buffer))
                    /\ bar' = [bar EXCEPT !.n = bar.n + Len(buffer)]
                    /\ UNCHANGED <<op, pc, exitcode>>
    /\ inp' = NoInput
    /\ UNCHANGED <<inputsV, stack, binary, clean, cause, runs, snap, made,
                   intoDir>>

(* ------------------------ interrupt, re-invocation --------------------- *)
\* KeyboardInterrupt inside worker.run: caught at line 217; main logs and
\* returns, so the process ends with exit code 0.
Interrupt ==
    /\ pc \in {"dispatch", "scan", "prompt", "initbar", "probe", "open", "loop"}
    /\ pc' = "interrupted"
    /\ exitcode' = 0
    /\ clean' = FALSE
    /\ inp' = NoInput
    /\ UNCHANGED <<inputsV, fs, stack, op, bar, binary, rest, writes, cause,
                   runs, snap, made, intoDir>>

\* The user starts the program again with the same arguments: a new process,
\* a new Worker, the filesystem as the last process left it.
Rerun ==
    /\ pc \in {"finished", "crashed"}
    /\ clean
    /\ runs < MaxRuns
    /\ runs' = runs + 1
    /\ snap' = fs
    /\ pc' = "main"
    /\ stack' = <<>>
    /\ op' = NoOp
    /\ inp' = NoInput
    /\ bar' = NoBar
    /\ binary' = FALSE
    /\ rest' = <<>>
    /\ writes' = <<>>
    /\ cause' = "none"
    /\ exitcode' = -1
    /\ made' = {}
    /\ intoDir' = FALSE
    /\ UNCHANGED <<inputsV, fs, clean>>

Next ==
    \/ Main
    \/ RunLink
    \/ RunFile
    \/ RunDir
    \/ ScanLink
    \/ ScanFile
    \/ ScanDir
    \/ ScanReturn
    \/ Prompt
    \/ InitBar
    \/ Probe
    \/ Open
    \/ Loop
    \/ Interrupt
    \/ Rerun

Spec == Init /\ [][Next]_vars

(* ------------------------------ the claims ----------------------------- *)
SrcSubdirs == {p \in SPaths \ {<<>>} : SrcNode(p).k = "dir"}
SkipKeys == {"s", "S"}
ExitKeys == {"e", "E"}
OverKeys == {"o", "O"}
CeilDiv(n, c) == (n + c - 1) \div c

\* C1: when copy_file has copied a file (its destination did not exist or
\* the answer was Overwrite, and no call failed), the destination holds
\* exactly the bytes of the source, in text mode and in binary mode.
C1_CopyPreservesBytes ==
    (op.kind = "copy" /\ op.out = "copied")
        => DestContent(fs, op.dst) = SrcNode(op.src).c

\* C2: after link_file has linked a source symlink to a path that did not
\* exist, the destination is a symlink whose target string is the source
\* link's raw target string.
C2_LinkKeepsRawTarget ==
    (op.kind = "link" /\ ~op.existed /\ op.out = "linked")
        => fs[op.dst] = Link(SrcNode(op.src).t)

\* C3: in a directory walk no I/O failure inside copy_file (the size query,
\* the probe's open, the opens, the reads and writes) ends the process: the
\* failure is contained and the walk goes on.
C3_FailuresContained ==
    (stack # <<>> /\ pc = "crashed") => cause \notin {"getsize", "probe"}

\* C4 as stated: the question is put exactly when the destination exists
\* (as os.path.exists sees it), for copy_file and for link_file alike.
C4_PromptIffExists ==
    op.kind \in {"copy", "link"}
        => (op.asked <=> op.found)

\* C4 as amended: copy_file puts the question exactly when os.path.exists
\* holds of its destination (a dangling link there does not count);
\* link_file never puts it; nothing is asked about a path that is not taken.
C4_PromptIffExistsOnCopy ==
    /\ op.kind = "copy" => (op.asked <=> op.found)
    /\ op.kind = "link" => ~op.asked
    /\ ~op.existed => ~op.asked
    /\ pc = "prompt" => op.asked

\* The walk has overwritten a after asking, and then met an existing c,
\* which link_file did not ask about.
C4_Witness ==
    /\ op.kind = "link" /\ op.existed /\ ~op.asked /\ op.out = "link_failed"
    /\ source = <<>>
    /\ snap[<<"a">>] = File(OldBytes)
    /\ fs[<<"a">>] = File(<<"x">>)

\* C5: an answer other than Overwrite never modifies the destination: any
\* other line puts the question again, "s" or "S" makes copy_file return with
\* the filesystem untouched and the walk where it was, "e" or "E" ends the
\* process with exit code 1 and the filesystem untouched, and nothing runs
\* after that.
C5_OnlyOverwriteWrites ==
    [][/\ (pc = "prompt" /\ inp' # NoInput) =>
            /\ inp' \notin OverKeys => fs' = fs
            /\ inp' \in SkipKeys =>
                (pc' = Ret /\ stack' = stack /\ op'.out = "skipped"
                 /\ exitcode' = RetCode)
            /\ inp' \in ExitKeys => (pc' = "exited" /\ exitcode' = 1)
            /\ inp' \notin (OverKeys \cup SkipKeys \cup ExitKeys) => pc' = "prompt"
       /\ pc = "exited" => (pc' = "exited" /\ fs' = fs)]_vars

\* Skip was answered in capitals after an invalid line, inside a walk.
C5_Witness ==
    /\ inp = "S" /\ op.retried /\ op.out = "skipped"
    /\ pc = "scan"
    /\ fs[op.dst] = File(OldBytes)

\* C6: when run() copies a directory into an existing directory, os.makedirs
\* creates only mirrors of source subdirectories, and when the walk is over
\* every source subdirectory (empty or not) has its mirror, created by the
\* walk unless it was there before; a link to a directory is no directory.
C6_DirsMirrored ==
    intoDir =>
        /\ made \subseteq SrcSubdirs
        /\ pc = "finished" =>
              \A d \in SrcSubdirs : isdir(fs, d) /\ (d \in made \/ isdir(snap, d))

\* A walk into an empty directory is over: both subdirectories were created
\* and the link to a directory was replicated as a link.
C6_Witness ==
    /\ intoDir /\ pc = "finished"
    /\ made = SrcSubdirs
    /\ made = {<<"B">>, <<"B", "E">>}
    /\ tkind = "dir" /\ fs[<<"c">>].k = "link"

\* C7: when a copy of n bytes with chunk size c has read its source to the
\* end, it has made ceil(n/c) writes, each of c units but the last, which
\* has at most c, and the progress bar stands at n, its total.
C7_ChunksAndProgress ==
    (pc = "loop" /\ rest = <<>> /\ failing = "none") =>
        LET n == Len(SrcNode(op.src).c)
        IN  /\ Len(writes) = CeilDiv(n, chunk_size)
            /\ \A i \in 1..Len(writes) :
                  /\ writes[i] <= chunk_size
                  /\ i < Len(writes) => writes[i] = chunk_size
            /\ bar.total = n
            /\ bar.n = n

\* C8: copying a source directory twice, every question answered Overwrite
\* and no call failing, leaves the destination as the first copy left it.
C8_Idempotent ==
    (source = <<>> /\ failing = "none" /\ runs >= 2 /\ clean /\ pc = "finished")
        => fs = snap

\* C9: whenever copy_file has returned (after a success, a contained
\* failure or Skip), Worker._bar is None: the bar that was created has been
\* closed, whatever the size of the file.
C9_BarReleased ==
    (op.kind = "copy" /\ op.out \in {"copied", "copy_failed", "skipped"})
        => ~bar.on

\* C10: whenever the walk calls copy_file or link_file for a child, the
\* directory the child's destination lies in exists.
C10_ParentExists ==
    op.child => op.parentOK

====
